---- MODULE Spec2Model ----
(***************************************************************************)
(* A model of cli/scripts/analyze_benchmarks.py: the group-key resolver    *)
(* (parse_prover_type and the key construction of load_and_aggregate), the *)
(* aggregator (load_and_aggregate), the statistics (compute_ci,            *)
(* compute_stats), the pairwise tests (perform_significance_tests) and the *)
(* pipeline of main.                                                       *)
(*                                                                         *)
(* Conventions.                                                            *)
(*  - A Python str is a sequence of one-character strings, so that         *)
(*    lower(), "in", split() and the f-strings are computed, not assumed.  *)
(*  - An optional value (a dict field that may be missing, a None) is a    *)
(*    sequence of length 0 or 1: <<>> is "missing"/None, <<v>> is v.       *)
(*  - A dict whose order of insertion matters is a sequence of entries.    *)
(*  - A float is [nan, v] with v in 1/100 units.                           *)
(***************************************************************************)
EXTENDS Integers, Sequences, FiniteSets, TLC

\* ------------------------------------------------------------------ bounds

\* Lines read (over all files) in a run of the main specification.
MaxLines == 3
\* Lines read in a run of the line-order specification.
MaxLinesOrder == 3
\* Lines read in a run of the resolver specification.
MaxLinesRes == 2
\* Lines read in a run of the significance-test specification.
MaxLinesSig == 5
\* Files on the command line after glob expansion.
MaxFiles == 2
\* Length of a series handed to compute_stats in the statistics specification.
MaxSeries == 4

\* ------------------------------------------------------------- optionals

None == <<>>
Some(v) == <<v>>
Has(o) == Len(o) = 1
Get(o) == o[1]

\* ---------------------------------------------------------------- strings

UpperChars == <<"A","B","C","D","E","F","G","H","I","J","K","L","M",
                "N","O","P","Q","R","S","T","U","V","W","X","Y","Z">>
LowerChars == <<"a","b","c","d","e","f","g","h","i","j","k","l","m",
                "n","o","p","q","r","s","t","u","v","w","x","y","z">>

\* str.lower() of one character (ASCII).
LowerChar(c) ==
    IF \E i \in 1..Len(UpperChars) : UpperChars[i] = c
    THEN LowerChars[CHOOSE i \in 1..Len(UpperChars) : UpperChars[i] = c]
    ELSE c

\* host.lower()
Lower(s) == [i \in 1..Len(s) |-> LowerChar(s[i])]

\* `sub in s` for two str
Contains(s, sub) ==
    \E i \in 0..(Len(s) - Len(sub)) :
        \A j \in 1..Len(sub) : s[i + j] = sub[j]

\* s.split(".")[0]: the text before the first "."
BeforeFirstDot(s) ==
    LET dots == {i \in 1..Len(s) : s[i] = "."}
        first == CHOOSE i \in dots : \A j \in dots : i <= j
    IN  IF dots = {} THEN s ELSE SubSeq(s, 1, first - 1)

S_Direct == <<"D","i","r","e","c","t">>
S_Proxy == <<"P","r","o","x","y">>
S_ProxyTEE == <<"P","r","o","x","y","-","T","E","E">>
S_TlsSingleShot == <<"T","l","s","S","i","n","g","l","e","S","h","o","t">>
S_TlsPerMessage == <<"T","l","s","P","e","r","M","e","s","s","a","g","e">>
S_tee == <<"t","e","e">>
S_Mock == <<"M","o","c","k">>
S_Bandwidth == <<"B","a","n","d","w","i","d","t","h">>
S_Latency == <<"L","a","t","e","n","c","y">>
S_notary == <<"n","o","t","a","r","y">>
S_example_com == <<".","e","x","a","m","p","l","e",".","c","o","m">>
S_teeHost == <<"t","e","e","-","p","r","o","x","y">> \o S_example_com
S_plainHost == <<"p","l","a","i","n">> \o S_example_com
S_upperTeeHost == <<"G","w","-","T","E","E","1">> \o S_example_com
S_localhost == <<"l","o","c","a","l","h","o","s","t">>
S_notaryCom == S_notary \o S_example_com
S_notaryOrg == S_notary \o <<".","o","t","h","e","r",".","o","r","g">>
\* The key of a TlsSingleShot record of notary.* with Bandwidth, used as a tag.
S_tlsKeyAsTag == S_TlsSingleShot \o <<" ","(">> \o S_notary \o <<")"," ","[">>
                    \o S_Bandwidth \o <<"]">>

\* ------------------------------------------------------- prover descriptors
\* A prover descriptor is a dict tag -> content, here a sequence of entries
\* [tag, content] in the dict's order.  A content is a dict that may hold
\* "proxy" (a dict that may hold "host"), "host", and "notary" (a dict that
\* may hold "domain" and "network_optimization").

NoContent == [proxy |-> None, host |-> None, notary |-> None]
NestedProxy(h) == [proxy |-> Some([host |-> h]), host |-> None, notary |-> None]
FlatProxy(h) == [proxy |-> None, host |-> h, notary |-> None]
Notary(d, o) ==
    [proxy |-> None, host |-> None,
     notary |-> Some([domain |-> d, network_optimization |-> o])]
Tagged(t, c) == << [tag |-> t, content |-> c] >>

\* `tag in prover`
HasTag(prover, t) == \E i \in 1..Len(prover) : prover[i].tag = t
\* prover[tag]
AtTag(prover, t) == prover[CHOOSE i \in 1..Len(prover) : prover[i].tag = t].content

\* What parse_prover_type gives: a tuple (prover_type, notary_domain,
\* network_opt), or an exception (ok = FALSE).
Parsed(pt, dom, opt) ==
    [ok |-> TRUE, prover_type |-> pt, notary_domain |-> dom, network_opt |-> opt]
Raised == [ok |-> FALSE, prover_type |-> <<>>, notary_domain |-> None, network_opt |-> None]

\* "tee" looked for in the host as written, without lower().
parse_proxy_case_sensitive(wrapper) ==
    LET host == IF Has(wrapper.proxy)
                THEN (IF Has(Get(wrapper.proxy).host) THEN Get(Get(wrapper.proxy).host) ELSE <<>>)
                ELSE (IF Has(wrapper.host) THEN Get(wrapper.host) ELSE <<>>)
    IN  IF Contains(host, S_tee)
        THEN Parsed(S_ProxyTEE, Some(host), None)
        ELSE Parsed(S_Proxy, Some(host), None)

parse_proxy(wrapper) ==
    LET \* proxy_wrapper.get("proxy", proxy_wrapper), then .get("host", "")
        host == IF Has(wrapper.proxy)
                THEN (IF Has(Get(wrapper.proxy).host) THEN Get(Get(wrapper.proxy).host) ELSE <<>>)
                ELSE (IF Has(wrapper.host) THEN Get(wrapper.host) ELSE <<>>)
    IN  IF Contains(Lower(host), S_tee)
        THEN Parsed(S_ProxyTEE, Some(host), None)
        ELSE Parsed(S_Proxy, Some(host), None)

parse_tls(tag, content) ==
    \* prover[tag]["notary"] raises KeyError when there is no notary
    IF ~Has(content.notary) THEN Raised
    ELSE Parsed(tag, Get(content.notary).domain, Get(content.notary).network_optimization)

\* No fallback: a tag that is not recognized raises.
parse_fallback_strict(prover) == Raised

parse_fallback(prover) ==
    \* list(prover.keys())[0] raises IndexError on an empty dict
    IF Len(prover) = 0 THEN Raised ELSE Parsed(prover[1].tag, None, None)

parse_prover_type(prover) ==
    IF HasTag(prover, S_Direct) THEN Parsed(S_Direct, None, None)
    ELSE IF HasTag(prover, S_Proxy) THEN parse_proxy(AtTag(prover, S_Proxy))
    ELSE IF HasTag(prover, S_TlsSingleShot)
         THEN parse_tls(S_TlsSingleShot, AtTag(prover, S_TlsSingleShot))
    ELSE IF HasTag(prover, S_TlsPerMessage)
         THEN parse_tls(S_TlsPerMessage, AtTag(prover, S_TlsPerMessage))
    ELSE parse_fallback(prover)

\* `if x:` for an Optional[str]: neither None nor the empty string
Truthy(o) == Has(o) /\ Len(Get(o)) > 0

\* The key construction of load_and_aggregate.
with_domain(prover_type, notary_domain) ==
    IF Truthy(notary_domain)
    THEN prover_type \o <<" ","(">> \o BeforeFirstDot(Get(notary_domain)) \o <<")">>
    ELSE prover_type

with_network_opt(key, network_opt) ==
    IF Truthy(network_opt)
    THEN key \o <<" ","[">> \o Get(network_opt) \o <<"]">>
    ELSE key

group_key(p) == with_network_opt(with_domain(p.prover_type, p.notary_domain), p.network_opt)

\* ----------------------------------------------------------- the aggregator
\* RoundStats(round_num=round_num)
RoundStats(round_num) ==
    [round_num |-> round_num, durations_ms |-> <<>>,
     request_bytes |-> <<>>, response_bytes |-> <<>>]

\* ProverStats(prover_type=prover_type, notary_domain=notary_domain)
ProverStats(prover_type, notary_domain) ==
    [prover_type |-> prover_type, notary_domain |-> notary_domain,
     total_durations_ms |-> <<>>, setup_times_ms |-> <<>>,
     rounds_stats |-> <<>>, all_round_durations_ms |-> <<>>,
     success_count |-> 0, failure_count |-> 0]

\* provers and rounds_stats are dicts: sequences of entries in insertion order,
\* [key, ps] in provers and [key, rs] in rounds_stats.
Keys(provers) == {provers[i].key : i \in 1..Len(provers)}
IndexOf(provers, key) == CHOOSE i \in 1..Len(provers) : provers[i].key = key
Lookup(provers, key) == provers[IndexOf(provers, key)].ps

RoundNums(ps) == {ps.rounds_stats[i].key : i \in 1..Len(ps.rounds_stats)}
RoundIndex(ps, n) ==
    CHOOSE i \in 1..Len(ps.rounds_stats) : ps.rounds_stats[i].key = n

\* if key not in provers: provers[key] = ProverStats(...)
ensure_group(provers, key, p) ==
    IF key \in Keys(provers) THEN provers
    ELSE Append(provers, [key |-> key, ps |-> ProverStats(p.prover_type, p.notary_domain)])

\* The assignment without its `if`: a round seen again starts afresh.
ensure_round_unconditional(ps, round_num) ==
    IF round_num \in RoundNums(ps)
    THEN [ps EXCEPT !.rounds_stats[RoundIndex(ps, round_num)].rs = RoundStats(round_num)]
    ELSE [ps EXCEPT !.rounds_stats =
                        Append(@, [key |-> round_num, rs |-> RoundStats(round_num)])]

\* if round_num not in ps.rounds_stats: ps.rounds_stats[round_num] = RoundStats(...)
ensure_round(ps, round_num) ==
    IF round_num \in RoundNums(ps) THEN ps
    ELSE [ps EXCEPT !.rounds_stats =
                        Append(@, [key |-> round_num, rs |-> RoundStats(round_num)])]

\* The loop body without its last statement: the duration reaches the round's
\* accumulator only.
add_round_per_round_only(ps, round_data) ==
    LET ps1 == ensure_round(ps, round_data.round)
        i == RoundIndex(ps1, round_data.round)
    IN  [ps1 EXCEPT
            !.rounds_stats[i].rs.durations_ms = Append(@, round_data.duration_ms),
            !.rounds_stats[i].rs.request_bytes = Append(@, round_data.request_bytes),
            !.rounds_stats[i].rs.response_bytes = Append(@, round_data.response_bytes)]

\* The body of `for round_data in results.get("rounds", [])`.
add_round(ps, round_data) ==
    LET ps1 == ensure_round(ps, round_data.round)
        i == RoundIndex(ps1, round_data.round)
    IN  [ps1 EXCEPT
            !.rounds_stats[i].rs.durations_ms = Append(@, round_data.duration_ms),
            !.rounds_stats[i].rs.request_bytes = Append(@, round_data.request_bytes),
            !.rounds_stats[i].rs.response_bytes = Append(@, round_data.response_bytes),
            !.all_round_durations_ms = Append(@, round_data.duration_ms)]

RECURSIVE add_rounds(_, _)
add_rounds(ps, rounds) ==
    IF rounds = <<>> THEN ps
    ELSE add_rounds(add_round(ps, Head(rounds)), Tail(rounds))

\* `if "setup_time_ms" in results:` a 0 counts as a setup time
setup_present(results) == Has(results.setup_time_ms)

\* `if results.get("setup_time_ms"):` a missing field and 0 are both falsy
setup_truthy(results) ==
    Has(results.setup_time_ms) /\ Get(results.setup_time_ms) # 0

add_setup_time(ps, results) ==
    IF setup_truthy(results)
    THEN [ps EXCEPT !.setup_times_ms = Append(@, Get(results.setup_time_ms))]
    ELSE ps

\* A record counts as a success when it carries results.
is_success_by_results(record) == Has(record.results)

\* `record.get("success", False)` as a condition
is_success(record) == Has(record.success) /\ Get(record.success)

\* A failure that is not counted.
record_failure_uncounted(ps) == ps

\* ps.failure_count += 1
record_failure(ps) == [ps EXCEPT !.failure_count = @ + 1]

\* A success branch that skips a record without results instead of raising.
record_success_lenient(ps, record) ==
    LET ps1 == [ps EXCEPT !.success_count = @ + 1]
    IN  IF ~Has(record.results) \/ ~Has(Get(record.results).total_duration_ms)
        THEN [ps |-> ps, ok |-> TRUE]
        ELSE LET results == Get(record.results)
                 ps2 == [ps1 EXCEPT !.total_durations_ms =
                                        Append(@, Get(results.total_duration_ms))]
                 ps3 == add_setup_time(ps2, results)
                 rounds == IF Has(results.rounds) THEN Get(results.rounds) ELSE <<>>
             IN  [ps |-> add_rounds(ps3, rounds), ok |-> TRUE]

\* The success branch, statement by statement: what an exception leaves
\* behind is what was assigned before it.  Gives [ps, ok].
record_success(ps, record) ==
    LET ps1 == [ps EXCEPT !.success_count = @ + 1]
    IN  IF ~Has(record.results) THEN [ps |-> ps1, ok |-> FALSE]   \* record["results"]
        ELSE LET results == Get(record.results)
             IN  IF ~Has(results.total_duration_ms)               \* results["total_duration_ms"]
                 THEN [ps |-> ps1, ok |-> FALSE]
                 ELSE LET ps2 == [ps1 EXCEPT !.total_durations_ms =
                                        Append(@, Get(results.total_duration_ms))]
                          ps3 == add_setup_time(ps2, results)
                          rounds == IF Has(results.rounds) THEN Get(results.rounds) ELSE <<>>
                      IN  [ps |-> add_rounds(ps3, rounds), ok |-> TRUE]

\* One record through the loop body of load_and_aggregate (lines 143-181).
\* Gives [provers, ok]: ok = FALSE is an exception leaving the loop.
ingest(provers, record) ==
    IF ~Has(record.prover) THEN [provers |-> provers, ok |-> FALSE]   \* record["prover"]
    ELSE LET p == parse_prover_type(Get(record.prover))
         IN  IF ~p.ok THEN [provers |-> provers, ok |-> FALSE]
             ELSE LET key == group_key(p)
                      grouped == ensure_group(provers, key, p)
                      i == IndexOf(grouped, key)
                      ps == grouped[i].ps
                  IN  IF is_success(record)
                      THEN LET r == record_success(ps, record)
                           IN  [provers |-> [grouped EXCEPT ![i].ps = r.ps], ok |-> r.ok]
                      ELSE [provers |-> [grouped EXCEPT ![i].ps = record_failure(ps)],
                            ok |-> TRUE]

\* The group a record is folded into (when its descriptor parses).
KeyOf(record) == group_key(parse_prover_type(Get(record.prover)))

\* ------------------------------------------------------------- statistics
\* Floats are [nan, v], v in 1/100 units; the data are whole numbers.
Fl(v) == [nan |-> FALSE, v |-> v]
NaN == [nan |-> TRUE, v |-> 0]
\* a <= b, a < k on floats: every comparison with nan is False
FLeq(a, b) == ~a.nan /\ ~b.nan /\ a.v <= b.v
FLess(a, b) == ~a.nan /\ ~b.nan /\ a.v < b.v

RECURSIVE Sum(_)
Sum(s) == IF s = <<>> THEN 0 ELSE Head(s) + Sum(Tail(s))
RECURSIVE SumSq(_)
SumSq(s) == IF s = <<>> THEN 0 ELSE Head(s) * Head(s) + SumSq(Tail(s))

RECURSIVE ISqrtIn(_, _, _)
ISqrtIn(x, lo, hi) ==
    IF lo = hi THEN lo
    ELSE LET mid == (lo + hi + 1) \div 2
         IN  IF mid * mid <= x THEN ISqrtIn(x, mid, hi) ELSE ISqrtIn(x, lo, mid - 1)
ISqrt(x) == ISqrtIn(x, 0, 46340)

RECURSIVE Insert(_, _)
Insert(x, s) ==
    IF s = <<>> THEN <<x>>
    ELSE IF x <= Head(s) THEN <<x>> \o s ELSE <<Head(s)>> \o Insert(x, Tail(s))
RECURSIVE Sorted(_)
Sorted(s) == IF s = <<>> THEN <<>> ELSE Insert(Head(s), Sorted(Tail(s)))

\* n * (sum of squared deviations from the mean), exactly
Dev(data) == Len(data) * SumSq(data) - Sum(data) * Sum(data)

np_mean(data) == Fl((Sum(data) * 100) \div Len(data))
\* np.std(data, ddof=1) and np.var(data, ddof=1), for len(data) >= 2
np_var(data) == Fl((Dev(data) * 100) \div (Len(data) * (Len(data) - 1)))
np_std(data) == Fl(ISqrt((Dev(data) * 10000) \div (Len(data) * (Len(data) - 1))))
\* scipy.stats.sem(data), for len(data) >= 2
stats_sem(data) ==
    Fl(ISqrt((Dev(data) * 10000) \div (Len(data) * Len(data) * (Len(data) - 1))))
np_min(data) == Fl(100 * Sorted(data)[1])
np_max(data) == Fl(100 * Sorted(data)[Len(data)])
np_median(data) ==
    LET s == Sorted(data)
        n == Len(data)
    IN  IF n % 2 = 1 THEN Fl(100 * s[(n + 1) \div 2])
        ELSE Fl((100 * (s[n \div 2] + s[n \div 2 + 1])) \div 2)

\* The 0.975 quantile of Student's t, times 1000, by degrees of freedom.
TCrit == <<12706, 4303, 3182, 2776, 2571, 2447, 2365, 2306, 2262, 2228,
           2201, 2179, 2160, 2145, 2131, 2120, 2110, 2101, 2093, 2086>>

\* scipy.stats.t.interval(0.95, df, loc=mean, scale=sem): a scale that is not
\* positive is outside the distribution's domain, and both ends are nan.
t_interval(df, loc, scale) ==
    IF scale.v <= 0 THEN <<NaN, NaN>>
    ELSE LET h == (TCrit[df] * scale.v) \div 1000
         IN  <<Fl(loc.v - h), Fl(loc.v + h)>>

compute_ci(data) ==
    IF Len(data) < 2
    THEN LET mean == IF data # <<>> THEN np_mean(data) ELSE Fl(0)
         IN  <<mean, mean, mean>>
    ELSE LET mean == np_mean(data)
             ci == t_interval(Len(data) - 1, mean, stats_sem(data))
         IN  <<mean, ci[1], ci[2]>>

\* (a / mean * 100), mean > 0
PctOf(a, mean) == IF a.nan THEN NaN ELSE Fl((a.v * 100 * 100) \div mean.v)
FSub(a, b) == IF a.nan \/ b.nan THEN NaN ELSE Fl(a.v - b.v)

compute_stats(data) ==
    IF data = <<>>
    THEN [n |-> 0, mean |-> Fl(0), std |-> Fl(0), sem |-> Fl(0),
          ci_lower |-> Fl(0), ci_upper |-> Fl(0),
          min |-> Fl(0), max |-> Fl(0), median |-> Fl(0),
          cv |-> Fl(0), ci_width_pct |-> None, adequate_sample |-> FALSE]
    ELSE LET n == Len(data)
             std == IF n > 1 THEN np_std(data) ELSE Fl(0)
             sem == IF n > 1 THEN stats_sem(data) ELSE Fl(0)
             ci == compute_ci(data)
             mean == ci[1]
             cv == IF mean.v > 0 THEN PctOf(std, mean) ELSE Fl(0)
             ci_width_pct == IF mean.v > 0 THEN PctOf(FSub(ci[3], ci[2]), mean)
                             ELSE Fl(10000)
         IN  [n |-> n, mean |-> mean, std |-> std, sem |-> sem,
              ci_lower |-> ci[2], ci_upper |-> ci[3],
              min |-> np_min(data), max |-> np_max(data), median |-> np_median(data),
              cv |-> cv, ci_width_pct |-> Some(ci_width_pct),
              adequate_sample |-> (n >= 5 /\ FLess(cv, Fl(3000))
                                          /\ FLess(ci_width_pct, Fl(4000)))]

\* ------------------------------------------------------ significance tests
S_vs == <<" ","v","s"," ">>

\* Cohen's d of two series of at least two values each.
cohens_d(a, b) ==
    LET pooled_std == ISqrt(((np_var(a).v + np_var(b).v) \div 2) * 100)
    IN  IF pooled_std > 0
        THEN Fl(((np_mean(a).v - np_mean(b).v) * 100) \div pooled_std)
        ELSE Fl(0)

\* `or` for `and`: a pair is tested when either group has 2 durations.
test_pair_either(provers, i, j, results) ==
    LET ps1 == provers[i].ps
        ps2 == provers[j].ps
    IN  IF Len(ps1.total_durations_ms) >= 2 \/ Len(ps2.total_durations_ms) >= 2
        THEN Append(results,
                    [comparison |-> provers[i].key \o S_vs \o provers[j].key,
                     cohens_d |-> Fl(0)])
        ELSE results

\* The body of the inner loop for the pair (prover_keys[i], prover_keys[j]).
\* Of a result, the comparison label and Cohen's d are kept; Welch's t and
\* its p-value are scipy's and are not needed here.
test_pair(provers, i, j, results) ==
    LET ps1 == provers[i].ps
        ps2 == provers[j].ps
    IN  IF Len(ps1.total_durations_ms) >= 2 /\ Len(ps2.total_durations_ms) >= 2
        THEN Append(results,
                    [comparison |-> provers[i].key \o S_vs \o provers[j].key,
                     cohens_d |-> cohens_d(ps1.total_durations_ms, ps2.total_durations_ms)])
        ELSE results

\* for i, key1 in enumerate(prover_keys): for key2 in prover_keys[i+1:]
RECURSIVE sig_loop(_, _, _, _)
sig_loop(provers, i, j, results) ==
    IF i > Len(provers) THEN results
    ELSE IF j > Len(provers) THEN sig_loop(provers, i + 1, i + 2, results)
    ELSE sig_loop(provers, i, j + 1, test_pair(provers, i, j, results))

perform_significance_tests(provers) == sig_loop(provers, 1, 2, <<>>)

\* -------------------------------------------------------------- renderers
\* What a renderer is handed and computes: the groups it shows and, per
\* group and metric, compute_stats of the series (the layout of the text is
\* not modelled; the rows are a set, the renderers sort by key).
Row(key, metric, round, data) ==
    [key |-> key, metric |-> metric, round |-> round, stats |-> compute_stats(data)]

group_rows(key, ps, with_bytes) ==
    {Row(key, "total_duration_ms", 0, ps.total_durations_ms)}
    \cup (IF ps.setup_times_ms # <<>>
          THEN {Row(key, "setup_time_ms", 0, ps.setup_times_ms)} ELSE {})
    \cup (IF ps.all_round_durations_ms # <<>>
          THEN {Row(key, "avg_round_duration_ms", 0, ps.all_round_durations_ms)} ELSE {})
    \cup {Row(key, "round_duration_ms", ps.rounds_stats[i].key,
              ps.rounds_stats[i].rs.durations_ms) : i \in 1..Len(ps.rounds_stats)}
    \cup (IF with_bytes
          THEN {Row(key, "round_request_bytes", ps.rounds_stats[i].key,
                    ps.rounds_stats[i].rs.request_bytes) : i \in 1..Len(ps.rounds_stats)}
               \cup
               {Row(key, "round_response_bytes", ps.rounds_stats[i].key,
                    ps.rounds_stats[i].rs.response_bytes) : i \in 1..Len(ps.rounds_stats)}
          ELSE {})

\* The groups with at least one success: the others are skipped (`continue`).
Analysed(provers) == {i \in 1..Len(provers) : provers[i].ps.success_count # 0}

rows_of(provers, with_bytes) ==
    UNION {group_rows(provers[i].key, provers[i].ps, with_bytes) : i \in Analysed(provers)}

print_report(provers, tests) ==
    [renderer |-> "report", groups |-> Keys(provers),
     rows |-> rows_of(provers, FALSE), tests |-> Some(tests)]

export_csv(provers) ==
    [renderer |-> "csv", groups |-> {provers[i].key : i \in Analysed(provers)},
     rows |-> rows_of(provers, FALSE), tests |-> None]

export_json(provers, tests) ==
    [renderer |-> "json", groups |-> {provers[i].key : i \in Analysed(provers)},
     rows |-> rows_of(provers, TRUE), tests |-> Some(tests)]

\* ------------------------------------------------------------------ inputs
Round(r, d, rq, rs) ==
    [round |-> r, duration_ms |-> d, request_bytes |-> rq, response_bytes |-> rs]

\* results payloads
R_zero == [total_duration_ms |-> Some(100), setup_time_ms |-> Some(0),
           rounds |-> Some(<<Round(1, 40, 10, 20), Round(2, 60, 11, 21)>>)]
R_seven == [total_duration_ms |-> Some(102), setup_time_ms |-> Some(7), rounds |-> None]
R_plain == [total_duration_ms |-> Some(100), setup_time_ms |-> None,
            rounds |-> Some(<<Round(2, 61, 12, 22)>>)]
R_repeat == [total_duration_ms |-> Some(102), setup_time_ms |-> None,
             rounds |-> Some(<<Round(1, 41, 10, 20), Round(1, 43, 13, 23)>>)]
R_nototal == [total_duration_ms |-> None, setup_time_ms |-> Some(7), rounds |-> None]

Record(prover, success, results) ==
    [prover |-> prover, success |-> success, results |-> results]
EmptyRecord == Record(None, None, None)

\* A line of a file: blank, text that is not JSON, or a JSON object.
BlankLine == [kind |-> "blank", record |-> EmptyRecord]
BadJsonLine == [kind |-> "badjson", record |-> EmptyRecord]
RecordLine(r) == [kind |-> "record", record |-> r]

\* prover descriptors
P_Direct == Tagged(S_Direct, NoContent)
P_TlsCom == Tagged(S_TlsSingleShot, Notary(Some(S_notaryCom), Some(S_Bandwidth)))
P_TlsOrg == Tagged(S_TlsSingleShot, Notary(Some(S_notaryOrg), Some(S_Bandwidth)))
P_KeyAsTag == Tagged(S_tlsKeyAsTag, NoContent)
P_ProxyTee == Tagged(S_Proxy, NestedProxy(Some(S_teeHost)))
P_ProxyPlain == Tagged(S_Proxy, NestedProxy(Some(S_plainHost)))
P_ProxyUpper == Tagged(S_Proxy, FlatProxy(Some(S_upperTeeHost)))
P_ProxyLocal == Tagged(S_Proxy, FlatProxy(Some(S_localhost)))
P_ProxyNoHost == Tagged(S_Proxy, NestedProxy(None))
P_ProxyBare == Tagged(S_Proxy, NoContent)
P_TlsPerLat == Tagged(S_TlsPerMessage, Notary(Some(S_notaryCom), Some(S_Latency)))
P_TlsNoOpt == Tagged(S_TlsPerMessage, Notary(Some(S_localhost), None))
P_TlsNoDomain == Tagged(S_TlsSingleShot, Notary(None, Some(S_Latency)))
P_TlsNoNotary == Tagged(S_TlsSingleShot, NoContent)
P_Mock == Tagged(S_Mock, NoContent)
P_MockDirect == Tagged(S_Mock, NoContent) \o Tagged(S_Direct, NoContent)
P_Empty == <<>>

Success(p, r) == RecordLine(Record(Some(p), Some(TRUE), Some(r)))
\* "success": false, and no "success" at all but a results payload
Failure(p) == RecordLine(Record(Some(p), Some(FALSE), None))
FailureWithResults(p, r) == RecordLine(Record(Some(p), None, Some(r)))

\* The lines of the main specification: two groups, every kind of outcome,
\* and each kind of line the run stops at.
Lines ==
    {BlankLine, BadJsonLine,
     Success(P_Direct, R_zero), Success(P_Direct, R_seven),
     Success(P_TlsCom, R_plain), Success(P_TlsCom, R_zero),
     Success(P_TlsCom, R_repeat),
     Failure(P_Direct), FailureWithResults(P_TlsCom, R_seven),
     RecordLine(Record(Some(P_Direct), Some(TRUE), None)),
     RecordLine(Record(Some(P_Empty), Some(FALSE), None))}

\* The lines of the line-order specification: three descriptors of one key
\* (two notary domains with the same first label, and that key as a tag)
\* and a second group.
OrderLines ==
    {Success(P_TlsCom, R_zero), Success(P_TlsOrg, R_seven),
     Success(P_KeyAsTag, R_plain), Failure(P_TlsOrg),
     Success(P_Direct, R_zero), FailureWithResults(P_Direct, R_seven)}

\* The lines of the resolver specification: one record per descriptor shape.
ResProvers ==
    {P_Direct, P_ProxyTee, P_ProxyPlain, P_ProxyUpper, P_ProxyLocal,
     P_ProxyNoHost, P_ProxyBare, P_TlsCom, P_TlsPerLat, P_TlsNoOpt,
     P_TlsNoDomain, P_TlsNoNotary, P_Mock, P_MockDirect, P_Empty}
ResLines ==
    {Success(p, R_seven) : p \in ResProvers}
    \cup {RecordLine(Record(None, Some(TRUE), Some(R_seven))),
          Success(P_Direct, R_nototal)}

\* The lines of the significance-test specification: three groups.
SigLines ==
    {Success(P_Direct, R_seven), Success(P_TlsCom, R_plain),
     Success(P_ProxyPlain, R_zero), Failure(P_Direct)}

\* ------------------------------------------------------------------- state
VARIABLES
    files,              \* main: len(files) after the glob expansion
    format,             \* args.format
    pc,                 \* where main is
    file_index,         \* load_and_aggregate: files read to their end
    log,                \* the lines read so far, in order
    provers,            \* load_and_aggregate: its local dict
    returned,           \* main: provers, once load_and_aggregate has returned
    significance_tests, \* main: the list of test results, once computed
    output,             \* what the renderers were called to produce, in order
    calls,              \* the functions main has called to their end, in order
    exit_status,        \* the status the process ended with
    series,             \* a series for compute_stats (statistics specification)
    summary             \* compute_stats(series), once computed

vars == <<files, format, pc, file_index, log, provers, returned,
          significance_tests, output, calls, exit_status, series, summary>>

pipeline == <<files, format, pc, file_index, log, provers, returned,
              significance_tests, output, calls, exit_status>>

Formats == {"report", "csv", "json"}

Init ==
    /\ files \in 0..MaxFiles
    /\ format \in Formats
    /\ pc = "check_files"
    /\ file_index = 0
    /\ log = <<>>
    /\ provers = <<>>
    /\ returned = None
    /\ significance_tests = None
    /\ output = <<>>
    /\ calls = <<>>
    /\ exit_status = None
    /\ series = <<>>
    /\ summary = None

\* main, lines 483-490: `if not files: sys.exit(1)`, else load_and_aggregate
CheckFiles ==
    /\ pc = "check_files"
    /\ IF files = 0
       THEN pc' = "exited" /\ exit_status' = Some(1)
       ELSE pc' = "next_file" /\ exit_status' = exit_status
    /\ UNCHANGED <<files, format, file_index, log, provers, returned,
                   significance_tests, output, calls, series, summary>>

\* for filepath in files: with open(filepath) as f
OpenFile ==
    /\ pc = "next_file"
    /\ file_index < files
    /\ pc' = "in_file"
    /\ UNCHANGED <<files, format, file_index, log, provers, returned,
                   significance_tests, output, calls, exit_status, series, summary>>

\* for line in f: one line through the loop body
ReadLine(universe, max) ==
    /\ pc = "in_file"
    /\ Len(log) < max
    /\ \E line \in universe :
        /\ log' = Append(log, line)
        /\ IF line.kind = "blank"
           THEN UNCHANGED <<pc, provers, exit_status>>
           ELSE IF line.kind = "badjson"
           THEN pc' = "raised" /\ exit_status' = Some(1) /\ provers' = provers
           ELSE LET r == ingest(provers, line.record)
                IN  /\ provers' = r.provers
                    /\ IF r.ok THEN UNCHANGED <<pc, exit_status>>
                       ELSE pc' = "raised" /\ exit_status' = Some(1)
    /\ UNCHANGED <<files, format, file_index, returned,
                   significance_tests, output, calls, series, summary>>

\* the file's last line has been read
EndOfFile ==
    /\ pc = "in_file"
    /\ file_index' = file_index + 1
    /\ pc' = "next_file"
    /\ UNCHANGED <<files, format, log, provers, returned,
                   significance_tests, output, calls, exit_status, series, summary>>

\* return provers
Return ==
    /\ pc = "next_file"
    /\ file_index = files
    /\ returned' = Some(provers)
    /\ calls' = Append(calls, "load_and_aggregate")
    /\ pc' = "loaded"
    /\ UNCHANGED <<files, format, file_index, log, provers,
                   significance_tests, output, exit_status, series, summary>>

\* main without the check of lines 492-494.
CheckDataMissing ==
    /\ pc = "loaded"
    /\ pc' = "testing"
    /\ UNCHANGED <<files, format, file_index, log, provers, returned,
                   significance_tests, output, calls, exit_status, series, summary>>

\* main, lines 492-494: `if not provers: sys.exit(1)`
CheckData ==
    /\ pc = "loaded"
    /\ IF Get(returned) = <<>>
       THEN pc' = "exited" /\ exit_status' = Some(1)
       ELSE pc' = "testing" /\ exit_status' = exit_status
    /\ UNCHANGED <<files, format, file_index, log, provers, returned,
                   significance_tests, output, calls, series, summary>>

\* main, line 497
SignificanceTests ==
    /\ pc = "testing"
    /\ significance_tests' = Some(perform_significance_tests(Get(returned)))
    /\ calls' = Append(calls, "perform_significance_tests")
    /\ pc' = "output"
    /\ UNCHANGED <<files, format, file_index, log, provers, returned,
                   output, exit_status, series, summary>>

\* main, lines 500-505: the renderer of args.format, then the end of main
Rendered(out, name) ==
    /\ output' = Append(output, out)
    /\ calls' = Append(calls, name)
    /\ pc' = "done"
    /\ exit_status' = Some(0)
    /\ UNCHANGED <<files, format, file_index, log, provers, returned,
                   significance_tests, series, summary>>

PrintReport ==
    /\ pc = "output"
    /\ format = "report"
    /\ Rendered(print_report(Get(returned), Get(significance_tests)), "print_report")

ExportCsv ==
    /\ pc = "output"
    /\ format = "csv"
    /\ Rendered(export_csv(Get(returned)), "export_csv")

ExportJson ==
    /\ pc = "output"
    /\ format = "json"
    /\ Rendered(export_json(Get(returned), Get(significance_tests)), "export_json")

\* main from line 483 on, over the lines `universe`, at most `max` of them.
Main(universe, max) ==
    \/ CheckFiles
    \/ OpenFile
    \/ ReadLine(universe, max)
    \/ EndOfFile
    \/ Return
    \/ CheckData
    \/ SignificanceTests
    \/ PrintReport
    \/ ExportCsv
    \/ ExportJson

Next == Main(Lines, MaxLines)
Spec == Init /\ [][Next]_vars

NextOrder == Main(OrderLines, MaxLinesOrder)
SpecOrder == Init /\ [][NextOrder]_vars

NextRes == Main(ResLines, MaxLinesRes)
SpecRes == Init /\ [][NextRes]_vars

NextSig == Main(SigLines, MaxLinesSig)
SpecSig == Init /\ [][NextSig]_vars

\* ------------------------------------------- the statistics specification
StatValues == {0, 98, 100}

SeriesOfLen(n) == [1..n -> StatValues]

InitStats ==
    /\ files = 0
    /\ format = "report"
    /\ pc = "check_files"
    /\ file_index = 0
    /\ log = <<>>
    /\ provers = <<>>
    /\ returned = None
    /\ significance_tests = None
    /\ output = <<>>
    /\ calls = <<>>
    /\ exit_status = None
    /\ series \in UNION {SeriesOfLen(n) : n \in 0..MaxSeries}
    /\ summary = None

ComputeStats ==
    /\ summary = None
    /\ summary' = Some(compute_stats(series))
    /\ UNCHANGED <<pipeline, series>>

NextStats == ComputeStats
SpecStats == InitStats /\ [][NextStats]_vars

\* ------------------------------------------------------------------ claims
\* The records of the log (its lines that are JSON objects) folded into `key`.
RecordsOf(key) ==
    {i \in 1..Len(log) : log[i].kind = "record" /\ KeyOf(log[i].record) = key}

\* C1: in the mapping load_and_aggregate returns, every record's group is
\* present, and for every group success_count + failure_count is the number
\* of input records whose key is that group and len(total_durations_ms) is
\* success_count.
C1_CountsMatchRecords ==
    Has(returned) =>
        LET m == Get(returned)
        IN  /\ \A i \in 1..Len(log) :
                log[i].kind = "record" => KeyOf(log[i].record) \in Keys(m)
            /\ \A g \in 1..Len(m) :
                /\ m[g].ps.success_count + m[g].ps.failure_count
                      = Cardinality(RecordsOf(m[g].key))
                /\ Len(m[g].ps.total_durations_ms) = m[g].ps.success_count

\* C1's case: a returned mapping of two groups, one with successes and failures.
C1_Witness ==
    /\ Has(returned)
    /\ Len(Get(returned)) = 2
    /\ \E g \in 1..Len(Get(returned)) :
        /\ Get(returned)[g].ps.success_count = 1
        /\ Get(returned)[g].ps.failure_count = 1

\* The permutations of 1..n, and a sequence in the order of one.
Perms(n) == {f \in [1..n -> 1..n] : \A i, j \in 1..n : f[i] = f[j] => i = j}
Permuted(l, f) == [i \in 1..Len(l) |-> l[f[i]]]

\* load_and_aggregate over well-formed lines, from an empty dict.
RECURSIVE Aggregated(_, _)
Aggregated(acc, lines) ==
    IF lines = <<>> THEN acc
    ELSE Aggregated(IF Head(lines).kind = "record"
                    THEN ingest(acc, Head(lines).record).provers ELSE acc,
                    Tail(lines))

Count(s, v) == Cardinality({i \in 1..Len(s) : s[i] = v})
Range(s) == {s[i] : i \in 1..Len(s)}
SameBag(s, t) ==
    /\ Len(s) = Len(t)
    /\ \A v \in Range(s) \cup Range(t) : Count(s, v) = Count(t, v)

SameRounds(a, b) ==
    /\ RoundNums(a) = RoundNums(b)
    /\ \A n \in RoundNums(a) :
        LET ra == a.rounds_stats[RoundIndex(a, n)].rs
            rb == b.rounds_stats[RoundIndex(b, n)].rs
        IN  /\ SameBag(ra.durations_ms, rb.durations_ms)
            /\ SameBag(ra.request_bytes, rb.request_bytes)
            /\ SameBag(ra.response_bytes, rb.response_bytes)

\* The counters, the round indices and every series as a multiset.
SameMeasurements(a, b) ==
    /\ a.success_count = b.success_count
    /\ a.failure_count = b.failure_count
    /\ SameBag(a.total_durations_ms, b.total_durations_ms)
    /\ SameBag(a.setup_times_ms, b.setup_times_ms)
    /\ SameBag(a.all_round_durations_ms, b.all_round_durations_ms)
    /\ SameRounds(a, b)

SameIdentity(a, b) ==
    /\ a.prover_type = b.prover_type
    /\ a.notary_domain = b.notary_domain

\* C2 as stated: when load_and_aggregate returns, every order of the lines
\* read gives the same group keys
\* and, per key, the same accumulator, the stored prover_type and
\* notary_domain included.
C2_SameAccumulatorInAnyOrder ==
    pc = "loaded" =>
        \A f \in Perms(Len(log)) :
            LET q == Aggregated(<<>>, Permuted(log, f))
                m == Get(returned)
            IN  /\ Keys(q) = Keys(m)
                /\ \A k \in Keys(q) :
                    /\ SameMeasurements(Lookup(q, k), Lookup(m, k))
                    /\ SameIdentity(Lookup(q, k), Lookup(m, k))

\* C2 amended: when load_and_aggregate returns, every order of the lines
\* read gives the same group keys and,
\* per key, the same counters, round indices and series as multisets (the
\* stored prover_type and notary_domain are the first record's).
C2_SameMeasurementsInAnyOrder ==
    pc = "loaded" =>
        \A f \in Perms(Len(log)) :
            LET q == Aggregated(<<>>, Permuted(log, f))
                m == Get(returned)
            IN  /\ Keys(q) = Keys(m)
                /\ \A k \in Keys(q) :
                    SameMeasurements(Lookup(q, k), Lookup(m, k))

\* C2's case: some other order of the lines read builds a different dict
\* (a series in another order), over two groups.
C2_Witness ==
    /\ pc = "loaded"
    /\ files = 2
    /\ Len(Get(returned)) = 2
    /\ \E g \in 1..Len(Get(returned)) : Len(Get(returned)[g].ps.rounds_stats) = 2
    /\ \E f \in Perms(Len(log)) :
        LET q == Aggregated(<<>>, Permuted(log, f))
        IN  \E k \in Keys(Get(returned)) :
                Lookup(q, k).total_durations_ms
                    # Lookup(Get(returned), k).total_durations_ms

\* The malformed lines C3 names: text that is not JSON, a successful record
\* without "results", a "prover" with no key.
Malformed(line) ==
    \/ line.kind = "badjson"
    \/ /\ line.kind = "record"
       /\ Has(line.record.success)
       /\ Get(line.record.success)
       /\ ~Has(line.record.results)
    \/ /\ line.kind = "record"
       /\ Has(line.record.prover)
       /\ Get(line.record.prover) = <<>>

\* C3: a malformed line is the last line read: the run has stopped at it
\* with an exception, load_and_aggregate has returned nothing, no test was
\* run and no renderer has produced output.
C3_MalformedIsFatal ==
    \A i \in 1..Len(log) :
        Malformed(log[i]) =>
            /\ i = Len(log)
            /\ pc = "raised"
            /\ exit_status = Some(1)
            /\ returned = None
            /\ significance_tests = None
            /\ output = <<>>
            /\ calls = <<>>

\* C3's case: the run stopped at a successful record without results, after
\* records were folded and with lines left to read.
C3_Witness ==
    /\ pc = "raised"
    /\ Len(log) = 2
    /\ log[2] = RecordLine(Record(Some(P_Direct), Some(TRUE), None))
    /\ Len(provers) = 2

\* A line whose "prover" is a tagged descriptor (a dict with a tag).
IsDescriptor(i) ==
    /\ log[i].kind = "record"
    /\ Has(log[i].record.prover)
    /\ Len(Get(log[i].record.prover)) >= 1
Descriptor(i) == Get(log[i].record.prover)

\* The run stopped at line i.
Stopped(i) == i = Len(log) /\ pc = "raised"

\* Line i was resolved to exactly one key: its group is in the dict, once,
\* and if the run stopped at the line it is for its results, not its prover.
ResolvedToOneKey(i) ==
    /\ parse_prover_type(Descriptor(i)).ok
    /\ Cardinality({g \in 1..Len(provers) : provers[g].key = KeyOf(log[i].record)}) = 1
    /\ Stopped(i) =>
          /\ Has(log[i].record.results)
          /\ ~Has(Get(log[i].record.results).total_duration_ms)

\* There are no more groups than distinct descriptors read.
OneKeyPerDescriptor ==
    Cardinality(Keys(provers))
        <= Cardinality({Descriptor(i) : i \in {j \in 1..Len(log) : IsDescriptor(j)}})

\* C4 as stated: every tagged descriptor, whatever its nested content, is
\* resolved to exactly one key without failing.
C4_ResolverTotal ==
    /\ \A i \in 1..Len(log) : IsDescriptor(i) => ResolvedToOneKey(i)
    /\ OneKeyPerDescriptor

\* Every TlsSingleShot / TlsPerMessage entry of the descriptor holds a notary.
TlsHasNotary(prover) ==
    \A e \in 1..Len(prover) :
        prover[e].tag \in {S_TlsSingleShot, S_TlsPerMessage}
            => Has(prover[e].content.notary)

\* C4 amended: every tagged descriptor whose TlsSingleShot / TlsPerMessage
\* content holds a notary is resolved to exactly one key without failing,
\* and equal descriptors to the same key.
C4_ResolverTotalOnShapes ==
    /\ \A i \in 1..Len(log) :
        (IsDescriptor(i) /\ TlsHasNotary(Descriptor(i))) => ResolvedToOneKey(i)
    /\ OneKeyPerDescriptor

\* C4's case: an unrecognized tag and a notary descriptor were both resolved.
C4_Witness ==
    /\ pc = "done"
    /\ Len(log) = 2
    /\ Descriptor(1) = P_Mock
    /\ Descriptor(2) = P_TlsNoDomain
    /\ Keys(provers) = {S_Mock, S_TlsSingleShot \o <<" ","[">> \o S_Latency \o <<"]">>}

K_ProxyTEE_teeproxy == S_ProxyTEE \o <<" ","(","t","e","e","-","p","r","o","x","y",")">>
K_Proxy_plain == S_Proxy \o <<" ","(","p","l","a","i","n",")">>
K_ProxyTEE_Gw == S_ProxyTEE \o <<" ","(","G","w","-","T","E","E","1",")">>
K_Proxy_localhost == S_Proxy \o <<" ","(","l","o","c","a","l","h","o","s","t",")">>

\* Every record of the log with descriptor `prover` is in the group `key`.
FoldedInto(prover, key) ==
    LET recs == {i \in 1..Len(log) :
                    log[i].kind = "record" /\ log[i].record.prover = Some(prover)}
    IN  recs # {} =>
            /\ key \in Keys(provers)
            /\ Lookup(provers, key).success_count >= Cardinality(recs)

\* C5 as stated: host tee-proxy.example.com is folded into the group keyed
\* exactly "Proxy-TEE", host plain.example.com into the group "Proxy".
C5_ProxyKeysAreLabels ==
    /\ FoldedInto(P_ProxyTee, S_ProxyTEE)
    /\ FoldedInto(P_ProxyPlain, S_Proxy)

\* C5 amended: the label of a Proxy record is "Proxy-TEE" iff its host holds
\* "tee" in any case, and its key is the label followed by the host's first
\* label in parentheses (the label alone when there is no host).
C5_ProxyKeys ==
    /\ FoldedInto(P_ProxyTee, K_ProxyTEE_teeproxy)
    /\ FoldedInto(P_ProxyPlain, K_Proxy_plain)
    /\ FoldedInto(P_ProxyUpper, K_ProxyTEE_Gw)
    /\ FoldedInto(P_ProxyLocal, K_Proxy_localhost)
    /\ FoldedInto(P_ProxyNoHost, S_Proxy)
    /\ FoldedInto(P_ProxyBare, S_Proxy)
    /\ \A g \in 1..Len(provers) :
        /\ provers[g].key \in {K_ProxyTEE_teeproxy, K_ProxyTEE_Gw}
              => provers[g].ps.prover_type = S_ProxyTEE
        /\ provers[g].key \in {K_Proxy_plain, K_Proxy_localhost, S_Proxy}
              => provers[g].ps.prover_type = S_Proxy

\* C5's case: the two hosts of the claim were read and folded.
C5_Witness ==
    /\ pc = "done"
    /\ Len(log) = 2
    /\ Descriptor(1) = P_ProxyTee
    /\ Descriptor(2) = P_ProxyPlain
    /\ Keys(provers) = {K_ProxyTEE_teeproxy, K_Proxy_plain}

\* The pairs of groups, first before second, with at least 2 durations each.
Testable(m) ==
    {pr \in (1..Len(m)) \X (1..Len(m)) :
        /\ pr[1] < pr[2]
        /\ Len(m[pr[1]].ps.total_durations_ms) >= 2
        /\ Len(m[pr[2]].ps.total_durations_ms) >= 2}

ResultsFor(m, tests, i, j) ==
    {r \in 1..Len(tests) : tests[r].comparison = m[i].key \o S_vs \o m[j].key}

\* C6: the test results hold exactly one result for every pair of distinct
\* groups with at least 2 total durations each, and none for any other pair
\* of groups, in either order or with itself.
C6_OneResultPerTestablePair ==
    Has(significance_tests) =>
        LET m == Get(returned)
            tests == Get(significance_tests)
        IN  /\ Len(tests) = Cardinality(Testable(m))
            /\ \A i, j \in 1..Len(m) :
                Cardinality(ResultsFor(m, tests, i, j))
                    = IF <<i, j>> \in Testable(m) THEN 1 ELSE 0

\* C6's case: three groups, one pair of them testable.
C6_Witness ==
    /\ Has(significance_tests)
    /\ Len(Get(returned)) = 3
    /\ Len(Get(significance_tests)) = 1
    /\ \A g \in 1..3 : Len(Get(returned)[g].ps.total_durations_ms) >= 1

\* C7: compute_stats of a non-empty series has ci_lower <= mean <= ci_upper.
C7_MeanWithinInterval ==
    (Has(summary) /\ series # <<>>) =>
        /\ FLeq(Get(summary).ci_lower, Get(summary).mean)
        /\ FLeq(Get(summary).mean, Get(summary).ci_upper)

\* The setup times of the successful records of `key` among the first n
\* lines that hold a setup_time_ms other than 0, in order.
RECURSIVE ExpectedSetup(_, _)
ExpectedSetup(key, n) ==
    IF n = 0 THEN <<>>
    ELSE LET r == log[n].record
             appended ==
                /\ log[n].kind = "record"
                /\ Has(r.success) /\ Get(r.success)
                /\ Has(r.results)
                /\ Has(r.prover) /\ KeyOf(r) = key
                /\ Has(Get(r.results).setup_time_ms)
                /\ Get(Get(r.results).setup_time_ms) # 0
         IN  IF appended
             THEN Append(ExpectedSetup(key, n - 1), Get(Get(r.results).setup_time_ms))
             ELSE ExpectedSetup(key, n - 1)

\* C8: a group's setup_times_ms is exactly the setup_time_ms of its
\* successful records that hold one other than 0; so it is no longer than
\* success_count and holds no zero.
C8_SetupOnlyWhenTruthy ==
    \A g \in 1..Len(provers) :
        /\ provers[g].ps.setup_times_ms = ExpectedSetup(provers[g].key, Len(log))
        /\ Len(provers[g].ps.setup_times_ms) <= provers[g].ps.success_count
        /\ \A i \in 1..Len(provers[g].ps.setup_times_ms) :
                provers[g].ps.setup_times_ms[i] # 0

\* C8's case: a group of three successes, with setup times 0, 7 and none.
C8_Witness ==
    /\ Len(log) = 3
    /\ log[1] = Success(P_Direct, R_zero)
    /\ log[2] = Success(P_Direct, R_seven)
    /\ log[3] = Success(P_TlsCom, R_plain)
    /\ Lookup(provers, S_Direct).setup_times_ms = <<7>>
    /\ Lookup(provers, S_Direct).success_count = 2

\* The last line read is a failure record with a descriptor that resolves.
LastIsFailure(l) ==
    /\ l # <<>>
    /\ l[Len(l)].kind = "record"
    /\ ~(Has(l[Len(l)].record.success) /\ Get(l[Len(l)].record.success))
    /\ Has(l[Len(l)].record.prover)
    /\ Len(Get(l[Len(l)].record.prover)) >= 1

\* C9: reading a failure record adds 1 to failure_count of its group (a new
\* group starts empty) and changes nothing else of any group.
C9_FailureOnlyCounts ==
    [][ (log' # log /\ LastIsFailure(log')) =>
            LET key == KeyOf(log'[Len(log')].record)
                new == Lookup(provers', key)
            IN  /\ Keys(provers') = Keys(provers) \cup {key}
                /\ \A k \in Keys(provers) \ {key} :
                        Lookup(provers', k) = Lookup(provers, k)
                /\ IF key \in Keys(provers)
                   THEN new = [Lookup(provers, key) EXCEPT !.failure_count = @ + 1]
                   ELSE /\ new.failure_count = 1
                        /\ new.success_count = 0
                        /\ new.total_durations_ms = <<>>
                        /\ new.setup_times_ms = <<>>
                        /\ new.rounds_stats = <<>>
                        /\ new.all_round_durations_ms = <<>>
      ]_vars

\* C9's case: a failure record with a results payload was read into a group
\* that holds measurements, beside another group.
C9_Witness ==
    /\ Len(log) = 3
    /\ log[3] = FailureWithResults(P_TlsCom, R_seven)
    /\ Len(provers) = 2
    /\ Lookup(provers, KeyOf(log[3].record)).success_count = 1
    /\ Lookup(provers, KeyOf(log[3].record)).failure_count = 1

RendererOf(f) ==
    IF f = "report" THEN "print_report"
    ELSE IF f = "csv" THEN "export_csv" ELSE "export_json"

IsPrefix(s, t) == Len(s) <= Len(t) /\ \A i \in 1..Len(s) : s[i] = t[i]

\* C10: main calls load_and_aggregate, perform_significance_tests and the
\* renderer of the format, in this order and once each; tests and output
\* exist only once every file is read to its end and are those of the
\* finished aggregates; a finished run has called exactly that renderer; a
\* run with no files or no data has called no renderer and exits with 1.
C10_PipelineOrder ==
    /\ IsPrefix(calls, <<"load_and_aggregate", "perform_significance_tests",
                         RendererOf(format)>>)
    /\ (Has(significance_tests) \/ output # <<>>) =>
          /\ file_index = files
          /\ returned = Some(provers)
          /\ calls # <<>>
          /\ calls[1] = "load_and_aggregate"
    /\ Has(significance_tests) =>
          /\ Len(calls) >= 2
          /\ Get(significance_tests) = perform_significance_tests(provers)
    /\ output # <<>> =>
          /\ Len(calls) = 3
          /\ Len(output) = 1
          /\ output[1].renderer = format
          /\ pc = "done"
    /\ pc = "done" => (Len(output) = 1 /\ exit_status = Some(0))
    /\ (files = 0 \/ (Has(returned) /\ Get(returned) = <<>>)) =>
          /\ output = <<>>
          /\ significance_tests = None
          /\ pc \in {"check_files", "loaded", "exited"}
          /\ pc = "exited" => exit_status = Some(1)
    /\ pc = "exited" =>
          /\ (files = 0 \/ (Has(returned) /\ Get(returned) = <<>>))
          /\ exit_status = Some(1)

\* C10's case: a run over two files that ended in the CSV renderer.
C10_Witness ==
    /\ pc = "done"
    /\ files = 2
    /\ format = "csv"
    /\ Len(log) = 3
    /\ Len(provers) = 2
    /\ calls = <<"load_and_aggregate", "perform_significance_tests", "export_csv">>

\* The rounds a record feeds to the round loop: those of a success record's
\* results, none when the record is a failure or names no rounds.
RoundsIn(record) ==
    IF is_success(record) /\ Has(record.results) /\ Has(Get(record.results).rounds)
    THEN Get(Get(record.results).rounds)
    ELSE <<>>

\* The round indices named by the records of a group, and the places
\* <<record, position>> where the group's records name round n.
RoundsSeen(key) ==
    UNION {{RoundsIn(log[i].record)[j].round : j \in 1..Len(RoundsIn(log[i].record))}
              : i \in RecordsOf(key)}
RoundEntries(key, n) ==
    UNION {{<<i, j>> : j \in {k \in 1..Len(RoundsIn(log[i].record)) :
                                  RoundsIn(log[i].record)[k].round = n}}
              : i \in RecordsOf(key)}

\* A group's round accumulators agree with one another and with the group's
\* flat list of round durations.
RoundsConsistent(ps) ==
    /\ Cardinality(RoundNums(ps)) = Len(ps.rounds_stats)
    /\ \A i \in 1..Len(ps.rounds_stats) :
        LET rs == ps.rounds_stats[i].rs
        IN  /\ rs.round_num = ps.rounds_stats[i].key
            /\ Len(rs.durations_ms) >= 1
            /\ Len(rs.request_bytes) = Len(rs.durations_ms)
            /\ Len(rs.response_bytes) = Len(rs.durations_ms)
    /\ Len(ps.all_round_durations_ms)
          = Sum([i \in 1..Len(ps.rounds_stats) |-> Len(ps.rounds_stats[i].rs.durations_ms)])

\* C11: in every group, at every point of the aggregation, each round
\* accumulator is stored under its own round_num, its durations_ms,
\* request_bytes and response_bytes have one length, at least 1, and
\* all_round_durations_ms is as long as the durations_ms of the group's round
\* accumulators together; in the mapping load_and_aggregate returns, a group
\* has an accumulator for exactly the rounds its success records named (made
\* on first use, never removed), each holding one value per naming.
C11_RoundAccumulatorsConsistent ==
    /\ \A g \in 1..Len(provers) : RoundsConsistent(provers[g].ps)
    /\ Has(returned) =>
        \A g \in 1..Len(Get(returned)) :
            LET key == Get(returned)[g].key
                ps == Get(returned)[g].ps
            IN  /\ RoundsConsistent(ps)
                /\ RoundNums(ps) = RoundsSeen(key)
                /\ \A n \in RoundNums(ps) :
                      Len(ps.rounds_stats[RoundIndex(ps, n)].rs.durations_ms)
                          = Cardinality(RoundEntries(key, n))

\* C11's case: the returned mapping has a group fed by three success records
\* with rounds; round 2 was named first and by two of them, round 1 later,
\* twice by one record and once by another.
C11_Witness ==
    /\ Has(returned)
    /\ Len(log) = 3
    /\ \E g \in 1..Len(Get(returned)) :
        LET ps == Get(returned)[g].ps
        IN  /\ ps.success_count = 3
            /\ Len(ps.rounds_stats) = 2
            /\ ps.rounds_stats[1].key = 2
            /\ Len(ps.rounds_stats[1].rs.durations_ms) = 2
            /\ ps.rounds_stats[2].key = 1
            /\ Len(ps.rounds_stats[2].rs.durations_ms) = 3
            /\ Len(ps.all_round_durations_ms) = 5

====
